---------------------------- MODULE Spec2Model ----------------------------
(***************************************************************************)
(* Model of the orbital visualizer (exoII/src/components/SolarSystem.tsx): *)
(* the simulation clock driven by the frame loop, the configuration and    *)
(* its control panel, the camera follow hook, and the orbital position     *)
(* calculator with its derived orbit ring and trail.                       *)
(*                                                                         *)
(* Numbers.  A JavaScript number is modelled in fixed point:               *)
(*   - lengths, ratios, opacities: integers in units of 1/Scale;           *)
(*   - angles: integers in units of 1/Turn of a revolution (so 2*PI is     *)
(*     Turn and a degree is Turn/360);                                     *)
(*   - times: integers in units of 1/TimeScale second; frame deltas in     *)
(*     units of 1/DeltaScale second and speeds in units of 1/SpeedScale,   *)
(*     with TimeScale = DeltaScale * SpeedScale so that delta * speed is   *)
(*     exact.                                                              *)
(* A non-finite double (NaN, +-Infinity) is the flag nan of a vector.      *)
(*                                                                         *)
(* The module also models the training API of the exo application (the     *)
(* start route with its background training process and the stop route)    *)
(* over the tables of its database.                                        *)
(***************************************************************************)
EXTENDS Integers, Sequences, FiniteSets, TLC

VARIABLES
    config,        \* useState(defaultConfig) of SolarSystem
    time,          \* useState(0) of useTimeSystem, in 1/TimeScale s
    elapsedTime,   \* state.clock.elapsedTime of the frame loop, in 1/DeltaScale s
    cameraTarget,  \* controlsRef.current.target of the OrbitControls
    pc,            \* "idle": the scene shows the state; "dirty": a render is scheduled
    frames,        \* number of frame-loop iterations run so far
    lastEvent,     \* the last step: "mount", "frame", "render", "reset" or "control"
    scene,         \* what the last render of SolarSystemScene computed
    args,          \* inputs of an evaluation of the calculator
    out,           \* result of that evaluation
    db,            \* the tables of the training API: sessions, logs, performance, results
    procs,         \* per session: where its start handler and training process are
    stops,         \* per session: where a stop handler is, how many have run, and the
                   \* status the last one found
    reply,         \* the last response a route handler returned
    hook           \* useTrainingProgress in a mounted component, its timer and fetches

vars == << config, time, elapsedTime, cameraTarget, pc, frames, lastEvent,
           scene, args, out, db, procs, stops, reply, hook >>

\* the state of the training API
apiVars == << db, procs, stops, reply >>

\* the state of the visualizer and of the calculator
viewVars == << config, time, elapsedTime, cameraTarget, pc, frames, lastEvent,
              scene, args, out >>

-----------------------------------------------------------------------------
(* Fixed-point arithmetic *)

Scale == 7200
Turn == 36000
DeltaScale == 36
SpeedScale == 10
TimeScale == DeltaScale * SpeedScale

NULL == "null"

Abs(n) == IF n < 0 THEN -n ELSE n
Max(a, b) == IF a >= b THEN a ELSE b
Min(a, b) == IF a <= b THEN a ELSE b

\* n / d rounded to the nearest integer, d > 0
RoundDiv(n, d) == (n + (d \div 2)) \div d

\* a * b and a / b of two fixed-point numbers
Mul(a, b) == RoundDiv(a * b, Scale)
Div(a, b) == IF b > 0 THEN RoundDiv(a * Scale, b) ELSE -RoundDiv(a * Scale, -b)

\* Math.sin of whole degrees 0..90, in units of 1/Scale
SinTable ==
  << 0, 126, 251, 377, 502, 628, 753, 877, 1002, 1126,
     1250, 1374, 1497, 1620, 1742, 1863, 1985, 2105, 2225, 2344,
     2463, 2580, 2697, 2813, 2929, 3043, 3156, 3269, 3380, 3491,
     3600, 3708, 3815, 3921, 4026, 4130, 4232, 4333, 4433, 4531,
     4628, 4724, 4818, 4910, 5002, 5091, 5179, 5266, 5351, 5434,
     5516, 5595, 5674, 5750, 5825, 5898, 5969, 6038, 6106, 6172,
     6235, 6297, 6357, 6415, 6471, 6525, 6578, 6628, 6676, 6722,
     6766, 6808, 6848, 6885, 6921, 6955, 6986, 7015, 7043, 7068,
     7091, 7111, 7130, 7146, 7161, 7173, 7182, 7190, 7196, 7199,
     7200 >>

Degree == Turn \div 360

\* sine of an angle q of the first quadrant, 0 <= q <= Turn/4
SinQuadrant(q) ==
    LET d == q \div Degree
        f == q % Degree
    IN  IF f = 0 THEN SinTable[d + 1]
        ELSE SinTable[d + 1]
             + RoundDiv((SinTable[d + 2] - SinTable[d + 1]) * f, Degree)

\* Math.sin, Math.cos of an angle
Sin(a) ==
    LET r == a % Turn
    IN  IF r <= Turn \div 4 THEN SinQuadrant(r)
        ELSE IF r <= Turn \div 2 THEN SinQuadrant((Turn \div 2) - r)
        ELSE IF r <= 3 * (Turn \div 4) THEN -SinQuadrant(r - (Turn \div 2))
        ELSE -SinQuadrant(Turn - r)

Cos(a) == Sin(a + (Turn \div 4))

\* Math.sqrt of v >= 0: the integer nearest to sqrt(v * Scale)
RECURSIVE SqrtSearch(_, _, _)
SqrtSearch(n, lo, hi) ==
    IF hi - lo <= 1
    THEN IF n - lo * lo <= hi * hi - n THEN lo ELSE hi
    ELSE LET mid == (lo + hi) \div 2
         IN  IF mid * mid <= n THEN SqrtSearch(n, mid, hi)
             ELSE SqrtSearch(n, lo, mid)

Sqrt(v) == SqrtSearch(v * Scale, 0, 4 * Scale)

\* the angle in 0..Turn/4 whose tangent is ay/ax (ay, ax >= 0, not both 0):
\* ay*cos - ax*sin falls from ay to -ax over the quadrant
RECURSIVE AtanSearch(_, _, _, _)
AtanSearch(ay, ax, lo, hi) ==
    IF hi - lo <= 1
    THEN IF Abs(ay * Cos(lo) - ax * Sin(lo)) <= Abs(ay * Cos(hi) - ax * Sin(hi))
         THEN lo ELSE hi
    ELSE LET mid == (lo + hi) \div 2
         IN  IF ay * Cos(mid) - ax * Sin(mid) >= 0
             THEN AtanSearch(ay, ax, mid, hi)
             ELSE AtanSearch(ay, ax, lo, mid)

\* Math.atan2(y, x), in (-Turn/2, Turn/2]
Atan2(y, x) ==
    IF x = 0 /\ y = 0 THEN 0
    ELSE LET q == AtanSearch(Abs(y), Abs(x), 0, Turn \div 4)
         IN  IF x >= 0 THEN (IF y >= 0 THEN q ELSE -q)
             ELSE (IF y >= 0 THEN (Turn \div 2) - q ELSE q - (Turn \div 2))

\* degrees (fixed point) to an angle: deg * Math.PI / 180
Radians(deg) == RoundDiv(deg * (Turn \div 360), Scale)

-----------------------------------------------------------------------------
(* THREE.Vector3; nan marks coordinates that are NaN or infinite *)

Vector3(x, y, z) == [x |-> x, y |-> y, z |-> z, nan |-> FALSE]
NaNVector == [x |-> 0, y |-> 0, z |-> 0, nan |-> TRUE]

-----------------------------------------------------------------------------
(* calculateOrbitalPosition *)

\* variant: (time / orbitalPeriod) * Math.PI, half a revolution per period
meanAnomalyOf_HalfTurn(t, orbitalPeriod) == (t * (Turn \div 2)) \div orbitalPeriod

\* meanAnomaly = (time / orbitalPeriod) * Math.PI * 2, orbitalPeriod # 0
meanAnomalyOf(t, orbitalPeriod) == (t * Turn) \div orbitalPeriod

\* Math.PI * 2, in units of 1/Scale
TwoPi == 45239

\* a fixed-point number of radians as an angle
AngleOfRadians(r) ==
    IF r >= 0 THEN RoundDiv(r * Turn, TwoPi) ELSE -RoundDiv((-r) * Turn, TwoPi)

\* e * Math.sin(E), a number of radians, as an angle
EccentricTerm(eccentricity, E) == AngleOfRadians(Mul(eccentricity, Sin(E)))

KeplerIterations == 5

\* for (let i = 0; i < 5; i++) E = M + e * Math.sin(E)
RECURSIVE KeplerLoop(_, _, _, _)
KeplerLoop(i, E, M, eccentricity) ==
    IF i < KeplerIterations
    THEN KeplerLoop(i + 1, M + EccentricTerm(eccentricity, E), M, eccentricity)
    ELSE E

eccentricAnomalyOf(M, eccentricity) == KeplerLoop(0, M, M, eccentricity)

\* variant: the loop leaves as soon as an iteration no longer changes E
RECURSIVE KeplerTrace_Converging(_, _, _, _)
KeplerTrace_Converging(i, trace, M, eccentricity) ==
    IF i < KeplerIterations
       /\ (i = 0 \/ trace[Len(trace)] # trace[Len(trace) - 1])
    THEN KeplerTrace_Converging(i + 1,
             Append(trace, M + EccentricTerm(eccentricity, trace[Len(trace)])),
             M, eccentricity)
    ELSE trace

\* the values E takes: the seed, then one value per pass of the loop body
RECURSIVE KeplerTrace(_, _, _, _)
KeplerTrace(i, trace, M, eccentricity) ==
    IF i < KeplerIterations
    THEN KeplerTrace(i + 1,
             Append(trace, M + EccentricTerm(eccentricity, trace[Len(trace)])),
             M, eccentricity)
    ELSE trace

\* let E = meanAnomaly, then the loop
eccentricAnomalyTrace(M, eccentricity) == KeplerTrace(0, << M >>, M, eccentricity)

\* variant: the two arguments of Math.atan2 exchanged
trueAnomalyOf_Swapped(E, eccentricity) ==
    2 * Atan2(Mul(Sqrt(Scale - eccentricity), Cos(E \div 2)),
              Mul(Sqrt(Scale + eccentricity), Sin(E \div 2)))

\* 2 * atan2(sqrt(1+e) * sin(E/2), sqrt(1-e) * cos(E/2)), -1 <= e <= 1
trueAnomalyOf(E, eccentricity) ==
    2 * Atan2(Mul(Sqrt(Scale + eccentricity), Sin(E \div 2)),
              Mul(Sqrt(Scale - eccentricity), Cos(E \div 2)))

\* 1 + e * cos(nu)
distanceDenominator(nu, eccentricity) == Scale + Mul(eccentricity, Cos(nu))

\* a * (1 - e*e) / (1 + e * cos(nu)), denominator # 0
distanceOf(nu, semiMajorAxis, eccentricity) ==
    Div(Mul(semiMajorAxis, Scale - Mul(eccentricity, eccentricity)),
        distanceDenominator(nu, eccentricity))

\* variant: z taken with the cosine of the inclination instead of its sine
rotateToSpace_CosineZ(x_orbital, y_orbital, inclination, longitudeOfAscendingNode, argumentOfPeriapsis) ==
    LET cos_omega == Cos(Radians(argumentOfPeriapsis))
        sin_omega == Sin(Radians(argumentOfPeriapsis))
        cos_i     == Cos(Radians(inclination))
        sin_i     == Sin(Radians(inclination))
        cos_Omega == Cos(Radians(longitudeOfAscendingNode))
        sin_Omega == Sin(Radians(longitudeOfAscendingNode))
        x == Mul(Mul(cos_omega, cos_Omega) - Mul(Mul(sin_omega, sin_Omega), cos_i),
                 x_orbital)
             + Mul(-Mul(sin_omega, cos_Omega) - Mul(Mul(cos_omega, sin_Omega), cos_i),
                   y_orbital)
        y == Mul(Mul(cos_omega, sin_Omega) + Mul(Mul(sin_omega, cos_Omega), cos_i),
                 x_orbital)
             + Mul(-Mul(sin_omega, sin_Omega) + Mul(Mul(cos_omega, cos_Omega), cos_i),
                   y_orbital)
        z == Mul(Mul(sin_omega, cos_i), x_orbital)
             + Mul(Mul(cos_omega, cos_i), y_orbital)
    IN  Vector3(x, y, z)

\* the rotation of (x_orbital, y_orbital, 0) by the three orbital angles
rotateToSpace(x_orbital, y_orbital, inclination, longitudeOfAscendingNode, argumentOfPeriapsis) ==
    LET cos_omega == Cos(Radians(argumentOfPeriapsis))
        sin_omega == Sin(Radians(argumentOfPeriapsis))
        cos_i     == Cos(Radians(inclination))
        sin_i     == Sin(Radians(inclination))
        cos_Omega == Cos(Radians(longitudeOfAscendingNode))
        sin_Omega == Sin(Radians(longitudeOfAscendingNode))
        x == Mul(Mul(cos_omega, cos_Omega) - Mul(Mul(sin_omega, sin_Omega), cos_i),
                 x_orbital)
             + Mul(-Mul(sin_omega, cos_Omega) - Mul(Mul(cos_omega, sin_Omega), cos_i),
                   y_orbital)
        y == Mul(Mul(cos_omega, sin_Omega) + Mul(Mul(sin_omega, cos_Omega), cos_i),
                 x_orbital)
             + Mul(-Mul(sin_omega, sin_Omega) + Mul(Mul(cos_omega, cos_Omega), cos_i),
                   y_orbital)
        z == Mul(Mul(sin_omega, sin_i), x_orbital)
             + Mul(Mul(cos_omega, sin_i), y_orbital)
    IN  Vector3(x, y, z)

\* the locals of calculateOrbitalPosition up to the position in the orbital
\* plane, orbitalPeriod # 0, -1 <= e <= 1, denominator # 0
orbitalPlane(t, semiMajorAxis, eccentricity, orbitalPeriod) ==
    LET meanAnomaly      == meanAnomalyOf(t, orbitalPeriod)
        eccentricAnomaly == eccentricAnomalyOf(meanAnomaly, eccentricity)
        trueAnomaly      == trueAnomalyOf(eccentricAnomaly, eccentricity)
        distance         == distanceOf(trueAnomaly, semiMajorAxis, eccentricity)
    IN  [ meanAnomaly      |-> meanAnomaly,
          eccentricAnomaly |-> eccentricAnomaly,
          trueAnomaly      |-> trueAnomaly,
          distance         |-> distance,
          x_orbital        |-> Mul(distance, Cos(trueAnomaly)),
          y_orbital        |-> Mul(distance, Sin(trueAnomaly)) ]

\* the steps of calculateOrbitalPosition when every intermediate value is finite
finitePosition(t, semiMajorAxis, eccentricity, orbitalPeriod, inclination, longitudeOfAscendingNode, argumentOfPeriapsis) ==
    LET meanAnomaly      == meanAnomalyOf(t, orbitalPeriod)
        eccentricAnomaly == eccentricAnomalyOf(meanAnomaly, eccentricity)
        trueAnomaly      == trueAnomalyOf(eccentricAnomaly, eccentricity)
    IN  IF distanceDenominator(trueAnomaly, eccentricity) = 0
        THEN NaNVector  \* x / 0 is NaN or Infinity
        ELSE
          LET distance  == distanceOf(trueAnomaly, semiMajorAxis, eccentricity)
              x_orbital == Mul(distance, Cos(trueAnomaly))
              y_orbital == Mul(distance, Sin(trueAnomaly))
          IN  rotateToSpace(x_orbital, y_orbital, inclination,
                            longitudeOfAscendingNode, argumentOfPeriapsis)

\* a variant that replaces a zero period and an eccentricity beyond +-1 by
\* usable values instead of letting NaN through
calculateOrbitalPosition_Clamped(t, semiMajorAxis, eccentricity, orbitalPeriod, inclination, longitudeOfAscendingNode, argumentOfPeriapsis) ==
    finitePosition(t, semiMajorAxis, Max(-Scale, Min(Scale, eccentricity)),
                   IF orbitalPeriod = 0 THEN TimeScale ELSE orbitalPeriod,
                   inclination, longitudeOfAscendingNode, argumentOfPeriapsis)

calculateOrbitalPosition(t, semiMajorAxis, eccentricity, orbitalPeriod, inclination, longitudeOfAscendingNode, argumentOfPeriapsis) ==
    IF orbitalPeriod = 0
    THEN NaNVector        \* time / 0 is NaN or Infinity, whose sine is NaN
    ELSE IF eccentricity > Scale \/ eccentricity < -Scale
    THEN NaNVector        \* Math.sqrt of a negative number is NaN
    ELSE finitePosition(t, semiMajorAxis, eccentricity, orbitalPeriod,
                        inclination, longitudeOfAscendingNode, argumentOfPeriapsis)

-----------------------------------------------------------------------------
(* Configuration *)

\* a number of whole seconds, of whole degrees, and a decimal x.d
Seconds(n) == n * TimeScale
Deg(n) == n * Scale
Tenths(n) == (n * Scale) \div 10

defaultConfig ==
    [ sun |-> [radius |-> 2 * Scale, emission |-> Scale],
      planets |-> <<
        [ radius |-> Tenths(4), semiMajorAxis |-> 8 * Scale,
          eccentricity |-> Tenths(2), color |-> "#8C7853",
          orbitalPeriod |-> Seconds(12), rotationPeriod |-> Seconds(1),
          inclination |-> Deg(15), longitudeOfAscendingNode |-> Deg(0),
          argumentOfPeriapsis |-> Deg(0), axialTilt |-> Tenths(235),
          name |-> "Mercury" ],
        [ radius |-> Tenths(9), semiMajorAxis |-> 12 * Scale,
          eccentricity |-> Tenths(1), color |-> "#FFC649",
          orbitalPeriod |-> Seconds(20), rotationPeriod |-> Seconds(1) + Seconds(1) \div 2,
          inclination |-> Deg(-10), longitudeOfAscendingNode |-> Deg(45),
          argumentOfPeriapsis |-> Deg(30), axialTilt |-> Deg(0),
          name |-> "Venus" ],
        [ radius |-> Tenths(5), semiMajorAxis |-> 5 * Scale,
          eccentricity |-> Tenths(4), color |-> "#CD5C5C",
          orbitalPeriod |-> Seconds(8), rotationPeriod |-> (Seconds(1) * 8) \div 10,
          inclination |-> Deg(25), longitudeOfAscendingNode |-> Deg(120),
          argumentOfPeriapsis |-> Deg(60), axialTilt |-> Deg(45),
          name |-> "Mars" ] >>,
      time |-> [speed |-> SpeedScale, paused |-> FALSE],
      render |-> [showOrbits |-> TRUE, showTrails |-> FALSE,
                  trailLength |-> 100, trailFade |-> TRUE],
      camera |-> [mode |-> "free", followPlanet |-> 0, preset |-> "default"] ]

\* { ...a, ...b }
Spread(a, b) ==
    [k \in (DOMAIN a) \cup (DOMAIN b) |-> IF k \in DOMAIN b THEN b[k] ELSE a[k]]

\* the updater of SolarSystem.updateConfig: prev => newConfig
\* variant: a named section is assigned as given, without the spread
updateConfig_Assign(prev, updates) ==
    [k \in DOMAIN prev |-> IF k \notin DOMAIN updates THEN prev[k] ELSE updates[k]]

updateConfig(prev, updates) ==
    [k \in DOMAIN prev |->
        IF k \notin DOMAIN updates THEN prev[k]
        ELSE IF k = "planets" THEN updates[k]
        ELSE Spread(prev[k], updates[k])]

\* config.planets[index] is an element of the array (not undefined)
HasPlanet(cfg, index) == index \in 0..(Len(cfg.planets) - 1)

\* config.planets[index], for an index of the array
PlanetAt(cfg, index) == cfg.planets[index + 1]

\* calculateOrbitalPosition(t, planet.semiMajorAxis, ..., planet.argumentOfPeriapsis)
PositionOf(t, planet) ==
    calculateOrbitalPosition(t, planet.semiMajorAxis, planet.eccentricity,
                             planet.orbitalPeriod, planet.inclination,
                             planet.longitudeOfAscendingNode,
                             planet.argumentOfPeriapsis)

-----------------------------------------------------------------------------
(* useTimeSystem *)

\* variants: the callback forgets the speed; the callback forgets the pause
useTimeSystemFrame_NoSpeed(prev, delta, cfg) ==
    IF ~cfg.time.paused THEN prev + delta * SpeedScale ELSE prev

useTimeSystemFrame_NoPause(prev, delta, cfg) == prev + delta * cfg.time.speed

\* the useFrame callback: the next value of time
useTimeSystemFrame(prev, delta, cfg) ==
    IF ~cfg.time.paused THEN prev + delta * cfg.time.speed ELSE prev

-----------------------------------------------------------------------------
(* useCameraSystem *)

Origin == Vector3(0, 0, 0)

\* useRef(null); no element of the scene is given cameraRef
cameraRef == [current |-> NULL]
\* useRef(null), given to <OrbitControls ref={controlsRef}>
controlsRef == [current |-> "OrbitControls"]

getCameraTarget(t, cfg) ==
    IF cfg.camera.mode = "follow" /\ HasPlanet(cfg, cfg.camera.followPlanet)
    THEN PositionOf(t, PlanetAt(cfg, cfg.camera.followPlanet))
    ELSE Origin

\* state.clock.elapsedTime, seconds, as a time
ClockTime(elapsed) == elapsed * SpeedScale

\* the useFrame callback: the next target of the controls
useCameraSystemFrame(target, elapsed, cfg) ==
    IF cameraRef.current # NULL /\ controlsRef.current # NULL
    THEN getCameraTarget(ClockTime(elapsed), cfg)
    ELSE target

-----------------------------------------------------------------------------
(* Trail *)

maxAngleDegrees == 60
numSegments == 60
maxAngleRadians == Radians(maxAngleDegrees * Scale)
angleStep == maxAngleRadians \div numSegments

\* time - (i * angleStep * planet.orbitalPeriod / (Math.PI * 2))
trailTimeOf(t, i, orbitalPeriod) == t - RoundDiv(i * angleStep * orbitalPeriod, Turn)

\* variant: the fade counted from the sample after the current one
trailOpacity_OffByOne(i) == Max(0, Scale - RoundDiv((i + 1) * Scale, numSegments))

\* Math.max(0, 1 - (i / numSegments))
trailOpacity(i) == Max(0, Scale - RoundDiv(i * Scale, numSegments))

\* variant: the loop without "if (trailTime < 0) continue"
trailSteps_NoSkip(t, orbitalPeriod) == [k \in 1..numSegments |-> k - 1]

\* the values of i, ascending, whose sample the loop pushes
trailSteps(t, orbitalPeriod) ==
    SelectSeq([k \in 1..numSegments |-> k - 1],
              LAMBDA i : ~(trailTimeOf(t, i, orbitalPeriod) < 0))

Reverse(s) == [k \in 1..Len(s) |-> s[Len(s) + 1 - k]]

\* the useMemo of Trail: oldest sample first
trailSegments(t, planet, showTrails) ==
    IF ~showTrails THEN << >>
    ELSE LET steps == trailSteps(t, planet.orbitalPeriod)
         IN  Reverse([k \in 1..Len(steps) |->
                 [ position |-> PositionOf(trailTimeOf(t, steps[k], planet.orbitalPeriod),
                                           planet),
                   opacity  |-> trailOpacity(steps[k]) ]])

\* the <Line> elements Trail returns: one per pair of neighbouring samples
trailLines(segments, showTrails) ==
    IF ~showTrails \/ Len(segments) < 2 THEN << >>
    ELSE [index \in 1..(Len(segments) - 1) |->
            [ points  |-> << segments[index].position, segments[index + 1].position >>,
              opacity |-> (segments[index].opacity + segments[index + 1].opacity) \div 2 ]]

-----------------------------------------------------------------------------
(* OrbitRing *)

ringSegments == 64
dummyPeriod == Seconds(10)

\* angle = (i / segments) * Math.PI * 2
ringAngle(i) == RoundDiv(i * Turn, ringSegments)

\* angle / (Math.PI * 2) * 10
ringTime(i) == RoundDiv(ringAngle(i) * dummyPeriod, Turn)

\* variant: the loop with i < segments
ringSteps_Open == [k \in 1..ringSegments |-> k - 1]

\* for (let i = 0; i <= segments; i++): the values of i
ringSteps == [k \in 1..(ringSegments + 1) |-> k - 1]

\* the useMemo of OrbitRing
ringPoints(planet) ==
    [k \in 1..Len(ringSteps) |->
        calculateOrbitalPosition(ringTime(ringSteps[k]), planet.semiMajorAxis,
                                 planet.eccentricity, dummyPeriod,
                                 planet.inclination, planet.longitudeOfAscendingNode,
                                 planet.argumentOfPeriapsis)]

-----------------------------------------------------------------------------
(* SolarSystemScene: one render *)

\* <Trail planetIndex={index} time={time} />, <Planet planetIndex={index} time={time} />
TrailProps(index, t) == [planetIndex |-> index, time |-> t]

\* variant: the time prop left out, so Planet falls back on its default time = 0
PlanetProps_NoTime(index, t) == [planetIndex |-> index, time |-> 0]

PlanetProps(index, t) == [planetIndex |-> index, time |-> t]

\* Planet: the memoized position for its props
Planet(props, cfg) ==
    [time |-> props.time,
     position |-> PositionOf(props.time, PlanetAt(cfg, props.planetIndex))]

\* Trail: the time its samples are taken from
Trail(props, cfg) == [time |-> props.time]

\* <OrbitRing planetIndex={index} />
OrbitRingProps(index) == [planetIndex |-> index]

\* the memo of a ring that has not rendered yet
NoRing == [planet |-> [name |-> "none"], points |-> << >>, visible |-> FALSE]

\* variant: the memo written like the one of Trail, empty while the rings are
\* hidden and recomputed when showOrbits changes
OrbitRing_HiddenEmpty(props, cfg, memo) ==
    [ planet  |-> PlanetAt(cfg, props.planetIndex),
      points  |-> IF ~cfg.render.showOrbits THEN << >>
                  ELSE IF memo.planet = PlanetAt(cfg, props.planetIndex)
                          /\ memo.visible
                       THEN memo.points
                       ELSE ringPoints(PlanetAt(cfg, props.planetIndex)),
      visible |-> cfg.render.showOrbits ]

\* OrbitRing: useMemo(..., [planet]) keeps the points of the last render while
\* the planet object is the same; the line is returned only with showOrbits
OrbitRing(props, cfg, memo) ==
    [ planet  |-> PlanetAt(cfg, props.planetIndex),
      points  |-> IF memo.planet = PlanetAt(cfg, props.planetIndex)
                  THEN memo.points
                  ELSE ringPoints(PlanetAt(cfg, props.planetIndex)),
      visible |-> cfg.render.showOrbits ]

\* the ring memo of body k in the scene of the last render
RingMemo(prev, k) ==
    IF k \in DOMAIN prev.bodies THEN prev.bodies[k].ring ELSE NoRing

NoScene == [time |-> 0, bodies |-> << >>]

SolarSystemScene(t, cfg, prev) ==
    [ time   |-> t,
      bodies |-> [k \in 1..Len(cfg.planets) |->
                    [ ring   |-> OrbitRing(OrbitRingProps(k - 1), cfg, RingMemo(prev, k)),
                      trail  |-> Trail(TrailProps(k - 1, t), cfg),
                      planet |-> Planet(PlanetProps(k - 1, t), cfg) ]] ]

-----------------------------------------------------------------------------
(* Bounds and inputs *)

MaxFrames == 2
MaxCalcSteps == 4

\* elapsed seconds between two frames, in 1/DeltaScale s
DeltaValues == {0, DeltaScale \div 2}

\* positions of the speed slider: min 0.1, 1, max 5 (step 0.1)
SpeedValues == {1, SpeedScale, 5 * SpeedScale}

NoArgs == [kind |-> "none"]
NoOut == [kind |-> "none"]

\* ids the database can give to training sessions, in the order it gives them
SessionIds == << "s1" >>

\* no request has reached the training API
NoDb ==
    [ sessions    |-> << >>,
      logs        |-> [s \in {SessionIds[k] : k \in DOMAIN SessionIds} |-> << >>],
      performance |-> [s \in {SessionIds[k] : k \in DOMAIN SessionIds} |-> << >>],
      results     |-> [s \in {SessionIds[k] : k \in DOMAIN SessionIds} |-> << >>] ]

NoReply == [route |-> "none", status |-> 0]

\* no component uses the hook
NoHook == [mounted |-> FALSE]

NoTraining ==
    /\ db = NoDb
    /\ procs = << >>
    /\ stops = [s \in {SessionIds[k] : k \in DOMAIN SessionIds} |->
                    [pc |-> "idle", count |-> 0, found |-> "none"]]
    /\ reply = NoReply

-----------------------------------------------------------------------------
(* The running application *)

Init ==
    /\ config = defaultConfig
    /\ time = 0
    /\ elapsedTime = 0
    /\ cameraTarget = Origin
    /\ pc = "idle"
    /\ frames = 0
    /\ lastEvent = "mount"
    /\ scene = SolarSystemScene(0, defaultConfig, NoScene)
    /\ args = NoArgs
    /\ out = NoOut
    /\ NoTraining
    /\ hook = NoHook

\* one iteration of the frame loop: the clock advances by delta and the
\* useFrame callbacks of useTimeSystem and useCameraSystem run
FrameTick(delta) ==
    /\ pc = "idle"
    /\ frames < MaxFrames
    /\ elapsedTime' = elapsedTime + delta
    /\ time' = useTimeSystemFrame(time, delta, config)
    /\ cameraTarget' = useCameraSystemFrame(cameraTarget, elapsedTime', config)
    /\ pc' = IF ~config.time.paused THEN "dirty" ELSE pc
    /\ frames' = frames + 1
    /\ lastEvent' = "frame"
    /\ UNCHANGED << config, scene, args, out >>
    /\ UNCHANGED << apiVars, hook >>

\* the render that setTime scheduled
Render ==
    /\ pc = "dirty"
    /\ scene' = SolarSystemScene(time, config, scene)
    /\ pc' = "idle"
    /\ lastEvent' = "render"
    /\ UNCHANGED << config, time, elapsedTime, cameraTarget, frames, args, out >>
    /\ UNCHANGED << apiVars, hook >>

\* a control of ControlPanel calls updateConfig(updates)
Control(name, updates) ==
    /\ config' = updateConfig(config, updates)
    /\ lastEvent' = name
    /\ UNCHANGED << time, elapsedTime, cameraTarget, pc, frames, scene, args, out >>
    /\ UNCHANGED << apiVars, hook >>

PlayPauseButton ==
    Control("control",
            [time |-> Spread(config.time, [paused |-> ~config.time.paused])])

ResetButton ==
    Control("reset", [time |-> Spread(config.time, [paused |-> TRUE])])

SpeedSlider(value) ==
    Control("control", [time |-> Spread(config.time, [speed |-> value])])

CameraModeButton(mode) ==
    Control("control", [camera |-> Spread(config.camera, [mode |-> mode])])

FollowPlanetButton(index) ==
    /\ config.camera.mode = "follow"
    /\ Control("control",
               [camera |-> Spread(config.camera, [followPlanet |-> index])])

ShowTrailsSwitch(checked) ==
    Control("control", [render |-> Spread(config.render, [showTrails |-> checked])])

ShowOrbitsSwitch(checked) ==
    Control("control", [render |-> Spread(config.render, [showOrbits |-> checked])])

Next ==
    \/ \E delta \in DeltaValues : FrameTick(delta)
    \/ Render
    \/ PlayPauseButton
    \/ ResetButton
    \/ \E value \in SpeedValues : SpeedSlider(value)
    \/ \E mode \in {"free", "follow"} : CameraModeButton(mode)
    \/ \E index \in 0..(Len(config.planets) - 1) : FollowPlanetButton(index)
    \/ \E checked \in BOOLEAN : ShowTrailsSwitch(checked)
    \/ \E checked \in BOOLEAN : ShowOrbitsSwitch(checked)

Spec == Init /\ [][Next]_vars

-----------------------------------------------------------------------------
(* The calculator on its own: inputs drawn from bounded sets *)

Mercury == defaultConfig.planets[1]

\* the three planets of defaultConfig, a circular orbit, and the elements
\* that the sliders of a configuration layer would have to keep out
CalcPlanets ==
    { defaultConfig.planets[k] : k \in 1..Len(defaultConfig.planets) }
    \cup { [defaultConfig.planets[k] EXCEPT !.eccentricity = 0] :
                k \in 1..Len(defaultConfig.planets) }
    \cup { [Mercury EXCEPT !.eccentricity = Tenths(5)],
           [Mercury EXCEPT !.eccentricity = Tenths(9)],
           [Mercury EXCEPT !.orbitalPeriod = 0],
           [Mercury EXCEPT !.eccentricity = Scale],
           [Mercury EXCEPT !.eccentricity = Tenths(15)],
           [Mercury EXCEPT !.eccentricity = -Tenths(15)],
           [Mercury EXCEPT !.eccentricity = -Tenths(5)] }

CalcTimes == {0, 5, 40} \cup { k * 700 : k \in 1..MaxCalcSteps }

InitCalc ==
    /\ config = defaultConfig
    /\ time = 0
    /\ elapsedTime = 0
    /\ cameraTarget = Origin
    /\ pc = "idle"
    /\ frames = 0
    /\ lastEvent = "mount"
    /\ scene = NoScene
    /\ \E t \in CalcTimes, planet \in CalcPlanets :
          args = [kind |-> "elements", time |-> t, planet |-> planet]
    /\ out = NoOut
    /\ NoTraining
    /\ hook = NoHook

Evaluate(result) ==
    /\ out = NoOut
    /\ out' = result
    /\ UNCHANGED << config, time, elapsedTime, cameraTarget, pc, frames,
                    lastEvent, scene, args >>
    /\ UNCHANGED << apiVars, hook >>

EvalPosition ==
    Evaluate([kind |-> "position", value |-> PositionOf(args.time, args.planet)])

EvalRing ==
    Evaluate([kind |-> "ring", points |-> ringPoints(args.planet),
              times |-> [k \in 1..Len(ringSteps) |-> ringTime(ringSteps[k])]])

EvalTrail(showTrails) ==
    LET segments == trailSegments(args.time, args.planet, showTrails)
        steps == IF showTrails THEN trailSteps(args.time, args.planet.orbitalPeriod)
                 ELSE << >>
    IN  Evaluate([kind |-> "trail", showTrails |-> showTrails,
                  segments |-> segments,
                  \* the trailTime of each sample, in the order the loop pushes them
                  times |-> [k \in 1..Len(steps) |->
                      trailTimeOf(args.time, steps[k], args.planet.orbitalPeriod)],
                  lines |-> trailLines(segments, showTrails)])

\* the locals of one call, for elements that keep every value finite
EvalOrbitalPlane ==
    /\ args.planet.orbitalPeriod # 0
    /\ args.planet.eccentricity \in (1 - Scale)..(Scale - 1)
    /\ Evaluate([kind |-> "plane",
                 locals |-> orbitalPlane(args.time, args.planet.semiMajorAxis,
                                         args.planet.eccentricity,
                                         args.planet.orbitalPeriod)])

\* the Kepler loop of one call
EvalKepler ==
    /\ args.planet.orbitalPeriod # 0
    /\ LET M == meanAnomalyOf(args.time, args.planet.orbitalPeriod)
       IN  Evaluate([kind |-> "kepler", meanAnomaly |-> M,
                     trace |-> eccentricAnomalyTrace(M, args.planet.eccentricity),
                     eccentricAnomaly |->
                         eccentricAnomalyOf(M, args.planet.eccentricity)])

\* two calls one orbital period apart
EvalPeriod ==
    Evaluate([kind |-> "period",
              value |-> PositionOf(args.time, args.planet),
              later |-> PositionOf(args.time + args.planet.orbitalPeriod,
                                   args.planet)])

NextCalc ==
    \/ EvalPosition
    \/ EvalRing
    \/ \E showTrails \in BOOLEAN : EvalTrail(showTrails)
    \/ EvalOrbitalPlane
    \/ EvalKepler
    \/ EvalPeriod

SpecCalc == InitCalc /\ [][NextCalc]_vars

-----------------------------------------------------------------------------
(* Properties of the simulation clock *)

\* the elapsed seconds of the frame a step takes
FrameDelta == elapsedTime' - elapsedTime
IsFrame == frames' = frames + 1

\* C1: over any sequence of frames, pause toggles and speed changes the clock
\* never decreases, a frame taken while not paused adds exactly delta * speed
\* (delta >= 0), and the speed stays within the slider range 0.1..5.
C1_ClockMonotone ==
    [][ /\ time' >= time
        /\ FrameDelta >= 0
        /\ config.time.speed \in 1..(5 * SpeedScale)
        /\ (IsFrame /\ ~config.time.paused)
              => time' = time + FrameDelta * config.time.speed ]_vars

\* frames ran at more than speed 1 (the clock is ahead of the wall clock),
\* then the speed was lowered and the clock paused
C1_Witness ==
    /\ frames >= 2
    /\ time > ClockTime(elapsedTime)
    /\ config.time.speed = 1
    /\ config.time.paused

\* C2: a frame taken while the configuration is paused leaves the clock
\* unchanged, whatever the elapsed delta and the speed are.
C2_PausedFrameKeepsTime ==
    [][ (IsFrame /\ config.time.paused) => time' = time ]_vars

\* one frame of positive delta ran at the highest speed, paused
C2_Witness ==
    /\ frames = 1
    /\ elapsedTime > 0
    /\ config.time.paused
    /\ config.time.speed = 5 * SpeedScale
    /\ lastEvent = "frame"
    /\ time = 0

\* C3: after the reset control of the time controls is pressed, time is 0.
C3_ResetSetsTimeToZero == lastEvent = "reset" => time = 0

\* C4: the clock is advanced at most once per frame and before the positions
\* are computed: every planet and every trail of a render is given the one
\* time the scene read, and the scene on display is that of the clock.
C4_FrameUsesOneTime ==
    /\ [](/\ Len(scene.bodies) = Len(config.planets)
          /\ \A k \in 1..Len(scene.bodies) :
                /\ scene.bodies[k].planet.time = scene.time
                /\ scene.bodies[k].trail.time = scene.time
          /\ pc = "idle" => scene.time = time)
    /\ [][ IsFrame => /\ scene.time = time
                      /\ time' \in {time, time + FrameDelta * config.time.speed} ]_vars

\* a scene rendered after two frames, at a time that is not the wall clock's
C4_Witness ==
    /\ pc = "idle"
    /\ frames >= 2
    /\ lastEvent = "render"
    /\ scene.time > 0
    /\ scene.time # ClockTime(elapsedTime)
    /\ \A k \in 1..Len(scene.bodies) : scene.bodies[k].planet.time = time

-----------------------------------------------------------------------------
(* Properties of the camera *)

\* C5: after every frame the camera target is the position of the followed
\* planet at the clock's time, where the planet is drawn; in free mode or
\* with an invalid followPlanet the target is the origin.
C5_CameraFollowsPlanet ==
    (frames > 0 /\ pc = "idle") =>
        cameraTarget =
            IF config.camera.mode = "follow" /\ HasPlanet(config, config.camera.followPlanet)
            THEN scene.bodies[config.camera.followPlanet + 1].planet.position
            ELSE Origin

-----------------------------------------------------------------------------
(* Properties of the calculator *)

\* an explicit invalid-parameter result, as opposed to a vector
IsInvalidParameter(result) == "error" \in DOMAIN result

\* elements outside the data model: a zero period, an eccentricity not in [0, 1)
InvalidElements(planet) ==
    \/ planet.orbitalPeriod = 0
    \/ planet.eccentricity < 0
    \/ planet.eccentricity >= Scale

\* C7 as stated: a zero period or an eccentricity outside [0, 1) gives an
\* explicit InvalidParameter result and never NaN or Infinity coordinates.
C7_InvalidParameterRejected ==
    (out.kind = "position" /\ InvalidElements(args.planet))
        => (IsInvalidParameter(out.value) /\ ~out.value.nan)

\* C7 amended: no input gives an InvalidParameter result; a zero period or an
\* eccentricity beyond +-1 gives a vector of NaN coordinates.
C7_InvalidElementsGiveNaN ==
    out.kind = "position" =>
        /\ ~IsInvalidParameter(out.value)
        /\ ( \/ args.planet.orbitalPeriod = 0
             \/ args.planet.eccentricity > Scale
             \/ args.planet.eccentricity < -Scale ) => out.value.nan

\* position evaluated for a zero period at a time after 0
C7_Witness ==
    /\ out.kind = "position"
    /\ args.planet.orbitalPeriod = 0
    /\ args.time > 0
    /\ out.value.nan

-----------------------------------------------------------------------------
(* Properties of the trail *)

IsTrail == out.kind = "trail" /\ out.showTrails /\ Len(out.segments) > 0

\* segments are kept oldest first: the newest is the last
Newest(segments) == segments[Len(segments)]
Oldest(segments) == segments[1]

OpacityFades(segments) ==
    \A k \in 1..(Len(segments) - 1) : segments[k].opacity <= segments[k + 1].opacity

\* C8 as stated: opacity does not increase from the newest segment to the
\* oldest, the newest has opacity 1.0 and the oldest has opacity 0.0.
C8_TrailFadesToZero ==
    IsTrail => /\ OpacityFades(out.segments)
               /\ Newest(out.segments).opacity = Scale
               /\ Oldest(out.segments).opacity = 0

\* C8 amended: opacity does not increase from the newest segment to the
\* oldest, the newest has opacity 1.0, and the segment i steps back has
\* opacity 1 - i/60, so that the oldest of N has 1 - (N-1)/60 > 0.
C8_TrailOpacityLinear ==
    IsTrail =>
        LET N == Len(out.segments)
        IN  /\ OpacityFades(out.segments)
            /\ Newest(out.segments).opacity = Scale
            /\ \A i \in 0..(N - 1) :
                  out.segments[N - i].opacity * 60 = Scale * (60 - i)
            /\ N <= 60
            /\ Oldest(out.segments).opacity > 0

\* a trail of all 60 samples: its oldest has opacity 1/60
C8_Witness ==
    /\ IsTrail
    /\ Len(out.segments) = 60
    /\ Oldest(out.segments).opacity * 60 = Scale
    /\ Newest(out.segments).opacity = Scale

\* C9: every sample time tau of a trail computed at time t for a period P has
\* 0 <= tau <= t and t - tau <= P/6; sample i is taken at t - i*(1/60)*(P/6),
\* the sample times strictly decrease with i, and exactly the samples that
\* would fall before time 0 are left out.
C9_TrailSampleTimes ==
    (IsTrail /\ args.planet.orbitalPeriod > 0) =>
        LET t == args.time
            P == args.planet.orbitalPeriod
            N == Len(out.times)
        IN  /\ Len(out.segments) = N
            /\ \A k \in 1..N :
                  /\ 0 <= out.times[k]
                  /\ out.times[k] <= t
                  /\ (t - out.times[k]) * 6 <= P
                  /\ out.times[k] * 360 = t * 360 - (k - 1) * P
            /\ \A k \in 1..(N - 1) : out.times[k + 1] < out.times[k]
            /\ N = Cardinality({i \in 0..59 : t * 360 - i * P >= 0})

\* a trail cut short at time 0: the sample after its last would be before 0
C9_Witness ==
    /\ IsTrail
    /\ args.planet.orbitalPeriod > 0
    /\ Len(out.times) \in 2..59
    /\ out.times[Len(out.times)] * 360 < args.planet.orbitalPeriod

-----------------------------------------------------------------------------
(* Properties of the orbit ring *)

IsRing == out.kind = "ring" /\ ~InvalidElements([args.planet EXCEPT !.orbitalPeriod = 1])

\* C10: the ring samples position at the 65 phases i/64, i = 0..64, of one
\* fixed reference period, and its first point equals its last.
C10_RingClosed ==
    IsRing =>
        /\ Len(out.points) = 65
        /\ Len(out.times) = 65
        /\ \A k \in 1..Len(out.times) :
              Abs(out.times[k] * 64 - (k - 1) * dummyPeriod) <= 32
        /\ \A k \in 1..Len(out.points) : ~out.points[k].nan
        /\ out.points[1] = out.points[Len(out.points)]

\* the ring of Mars (eccentricity 0.4): closed, and not a single point
C10_Witness ==
    /\ IsRing
    /\ args.planet.eccentricity = Tenths(4)
    /\ out.points[1] = out.points[65]
    /\ out.points[1] # out.points[33]

-----------------------------------------------------------------------------
(* Properties of the orbit ring in the running application *)

\* the ring of each body of defaultConfig, computed from its elements alone
RingOfElements ==
    [k \in 1..Len(defaultConfig.planets) |-> ringPoints(defaultConfig.planets[k])]

\* C11: the points of a body's orbit ring depend only on that body's orbital
\* elements: whatever frames, pauses, speed changes, camera changes and
\* render-option changes have happened, the ring of the last render is the
\* list computed from the elements.
C11_RingDependsOnElementsOnly ==
    \A k \in DOMAIN scene.bodies :
        /\ scene.bodies[k].ring.planet = defaultConfig.planets[k]
        /\ scene.bodies[k].ring.points = RingOfElements[k]

\* a render after the clock ran, the speed and the camera were changed and
\* the rings were hidden
C11_Witness ==
    /\ lastEvent = "render"
    /\ scene.time > 0
    /\ config.time.speed # SpeedScale
    /\ config.camera.mode = "follow"
    /\ ~config.render.showOrbits
    /\ ~config.render.showTrails
    /\ \A k \in DOMAIN scene.bodies :
           /\ ~scene.bodies[k].ring.visible
           /\ Len(scene.bodies[k].ring.points) = ringSegments + 1

-----------------------------------------------------------------------------
(* Properties of the calculator's intermediate values *)

IsValidEccentricity(eccentricity) == eccentricity \in 0..(Scale - 1)

\* a * (1 - e)
periapsisDistance(planet) == Mul(planet.semiMajorAxis, Scale - planet.eccentricity)

\* C12: at time 0, for every eccentricity in [0, 1), the mean anomaly, the
\* eccentric anomaly after each of the 5 iterations and the true anomaly are
\* 0, the radius is a(1 - e) and the position in the orbital plane is
\* (a(1 - e), 0).
C12_PeriapsisAtTimeZero ==
    (args.kind = "elements" /\ args.time = 0
        /\ IsValidEccentricity(args.planet.eccentricity))
    => /\ out.kind = "kepler" =>
            /\ out.meanAnomaly = 0
            /\ \A k \in DOMAIN out.trace : out.trace[k] = 0
            /\ out.eccentricAnomaly = 0
       /\ out.kind = "plane" =>
            /\ out.locals.meanAnomaly = 0
            /\ out.locals.eccentricAnomaly = 0
            /\ out.locals.trueAnomaly = 0
            /\ out.locals.distance = periapsisDistance(args.planet)
            /\ out.locals.x_orbital = periapsisDistance(args.planet)
            /\ out.locals.y_orbital = 0

\* Mars (e = 0.4, a = 5) at time 0: radius 3
C12_Witness ==
    /\ args.kind = "elements" /\ args.time = 0
    /\ args.planet = defaultConfig.planets[3]
    /\ out.kind = "plane"
    /\ out.locals.trueAnomaly = 0
    /\ out.locals.x_orbital = 3 * Scale

-----------------------------------------------------------------------------
(* Properties of the position *)

\* a length in hundredths of a unit
Hundredths(v) == RoundDiv(v * 100, Scale)

\* the squared distance of a position from the origin, in 1/10000
lengthSq(v) == Hundredths(v.x) * Hundredths(v.x) + Hundredths(v.y) * Hundredths(v.y)
               + Hundredths(v.z) * Hundredths(v.z)

\* |r*r - a*a| <= tolerance * (2a + tolerance), i.e. |r - a| <= tolerance
WithinOf(rSq, a, tolerance) == Abs(rSq - a * a) <= tolerance * (2 * a + tolerance)

\* C13: on a circular orbit (eccentricity 0) the distance of position(t) from
\* the origin is semiMajorAxis, at every time and for every inclination,
\* ascending node and argument of periapsis (to 0.01 of a unit, the
\* resolution the distance is compared at).
C13_CircularOrbitRadius ==
    (args.kind = "elements" /\ args.planet.eccentricity = 0
        /\ args.planet.orbitalPeriod # 0 /\ out.kind = "position")
    => /\ ~out.value.nan
       /\ WithinOf(lengthSq(out.value), Hundredths(args.planet.semiMajorAxis), 1)

\* Mars made circular (inclination 25, node 120, argument 60) away from its
\* periapsis and off the reference plane
C13_Witness ==
    /\ args.kind = "elements" /\ args.time > 0
    /\ args.planet = [defaultConfig.planets[3] EXCEPT !.eccentricity = 0]
    /\ out.kind = "position"
    /\ out.value.z # 0 /\ out.value.x # 0 /\ out.value.y # 0

\* C14: the position is periodic in time with period orbitalPeriod:
\* position(t) = position(t + orbitalPeriod), for elements that give a
\* finite position.
C14_PositionPeriodic ==
    (args.kind = "elements" /\ out.kind = "period" /\ ~out.value.nan)
    => out.later = out.value

\* Venus a third of the way round its orbit and one period later
C14_Witness ==
    /\ args.kind = "elements" /\ args.time > 0
    /\ args.planet = defaultConfig.planets[2]
    /\ out.kind = "period"
    /\ ~out.later.nan
    /\ out.later.x < 0 /\ out.later.z # 0

-----------------------------------------------------------------------------
(* Properties of the Kepler loop *)

\* C15: the Kepler solve is the fixed-point iteration E <- M + e*sin(E)
\* seeded with E = M; it makes exactly 5 passes for every input, whether or
\* not E has stopped changing, and the result is the value after the fifth.
C15_KeplerFiveIterations ==
    (args.kind = "elements" /\ out.kind = "kepler")
    => /\ Len(out.trace) = 5 + 1
       /\ out.trace[1] = out.meanAnomaly
       /\ \A k \in 1..5 :
             out.trace[k + 1] = out.meanAnomaly
                                + EccentricTerm(args.planet.eccentricity, out.trace[k])
       /\ out.eccentricAnomaly = out.trace[5 + 1]

\* a circular orbit, where E = M from the first pass on, and still 5 passes
C15_Witness ==
    /\ args.kind = "elements" /\ args.time > 0
    /\ args.planet.eccentricity = 0
    /\ out.kind = "kepler"
    /\ out.meanAnomaly > 0
    /\ Len(out.trace) = 5 + 1
    /\ \A k \in DOMAIN out.trace : out.trace[k] = out.meanAnomaly

-----------------------------------------------------------------------------
(* updateConfig on its own: a previous config and an update drawn from sets *)

Sections == {"sun", "planets", "time", "render", "camera"}

\* a config the controls can have produced
changedConfig ==
    [defaultConfig EXCEPT !.time = [speed |-> 5 * SpeedScale, paused |-> TRUE],
                          !.render.showTrails = FALSE,
                          !.camera = [mode |-> "follow", followPlanet |-> 2,
                                      preset |-> "top"]]

SunUpdates == { [radius |-> 3 * Scale], [emission |-> 2 * Scale] }
PlanetsUpdates == { << >>, << defaultConfig.planets[3] >> }
TimeUpdates == { [paused |-> TRUE], [speed |-> 1], [speed |-> 2 * SpeedScale, paused |-> FALSE] }
RenderUpdates == { [showOrbits |-> FALSE], [trailLength |-> 50, trailFade |-> FALSE] }
CameraUpdates == { [mode |-> "follow"], [preset |-> "side", followPlanet |-> 1] }

\* a Partial<SolarSystemConfig> that names the sections of S
PartialConfig(S, sun, planets, t, render, camera) ==
    [k \in S |-> CASE k = "sun" -> sun
                   [] k = "planets" -> planets
                   [] k = "time" -> t
                   [] k = "render" -> render
                   [] k = "camera" -> camera]

InitConfig ==
    /\ config = defaultConfig
    /\ time = 0
    /\ elapsedTime = 0
    /\ cameraTarget = Origin
    /\ pc = "idle"
    /\ frames = 0
    /\ lastEvent = "mount"
    /\ scene = NoScene
    /\ \E prev \in {defaultConfig, changedConfig}, S \in SUBSET Sections,
          sun \in SunUpdates, planets \in PlanetsUpdates, t \in TimeUpdates,
          render \in RenderUpdates, camera \in CameraUpdates :
          args = [kind |-> "update", prev |-> prev,
                  updates |-> PartialConfig(S, sun, planets, t, render, camera)]
    /\ out = NoOut
    /\ NoTraining
    /\ hook = NoHook

\* setConfig(prev => ...): the updater runs on the previous config
ApplyUpdate ==
    /\ args.kind = "update"
    /\ Evaluate([kind |-> "config", prev |-> args.prev,
                 next |-> updateConfig(args.prev, args.updates)])

NextConfig == ApplyUpdate

SpecConfig == InitConfig /\ [][NextConfig]_vars

\* a section after the spread {...prev[k], ...updates[k]}
IsSpreadOf(section, before, given) ==
    /\ DOMAIN section = DOMAIN before \cup DOMAIN given
    /\ \A key \in DOMAIN section :
          section[key] = IF key \in DOMAIN given THEN given[key] ELSE before[key]

\* C16: a configuration update produces a new snapshot and leaves the
\* previous config as it was; every top-level section (sun, planets, time,
\* render, camera) the update does not name is carried over unchanged, a
\* named planets section is replaced, and in any other named section the keys
\* the update does not give keep their previous values.
C16_UpdateKeepsUnnamedKeys ==
    out.kind = "config"
    => /\ out.prev = args.prev
       /\ DOMAIN out.next = Sections
       /\ \A k \in Sections :
             IF k \notin DOMAIN args.updates THEN out.next[k] = args.prev[k]
             ELSE IF k = "planets" THEN out.next[k] = args.updates[k]
             ELSE IsSpreadOf(out.next[k], args.prev[k], args.updates[k])

\* an update of time.paused and of the planets on a config whose speed,
\* trails and camera had been changed
C16_Witness ==
    /\ out.kind = "config"
    /\ args.prev = changedConfig
    /\ DOMAIN args.updates = {"time", "planets"}
    /\ DOMAIN args.updates["time"] = {"speed"}
    /\ out.next.time = [speed |-> 1, paused |-> TRUE]
    /\ Len(out.next.planets) = 1
    /\ out.next.camera = changedConfig.camera
    /\ out.next.render = changedConfig.render
    /\ out.next # args.prev

-----------------------------------------------------------------------------
(* The training API: POST /api/training/start, its background process,     *)
(* and POST /api/training/stop.  Every awaited database call is one step;  *)
(* between two of them the steps of other handlers and processes can run.  *)

MaxEpochs == 2
MaxStops == 1

AllSessionIds == { SessionIds[k] : k \in DOMAIN SessionIds }

\* learningRate in 1/10000, validationSplit in 1/100
validBody == [dataSource |-> "kepler", epochs |-> 1, batchSize |-> 32,
              learningRate |-> 10, validationSplit |-> 20]

\* request bodies: valid ones (10 epochs reach the progress log of the loop)
\* and ones with a single field out of its range
StartBodies ==
    { [validBody EXCEPT !.epochs = n] : n \in 1..MaxEpochs \cup {10} }
    \cup { [validBody EXCEPT !.epochs = 0], [validBody EXCEPT !.epochs = 1001],
           [validBody EXCEPT !.batchSize = 513],
           [validBody EXCEPT !.learningRate = 0],
           [validBody EXCEPT !.validationSplit = 51],
           [validBody EXCEPT !.dataSource = "gaia"] }

\* variant: batchSize without its upper limit
TrainingRequestSchema_NoBatchMax(body) ==
    /\ body.dataSource \in {"kepler", "tess", "k2", "combined"}
    /\ body.epochs >= 1 /\ body.epochs <= 1000
    /\ body.batchSize >= 1
    /\ body.learningRate >= 1 /\ body.learningRate <= 10000
    /\ body.validationSplit >= 0 /\ body.validationSplit <= 50

\* TrainingRequestSchema.parse(body) does not throw
TrainingRequestSchema(body) ==
    /\ body.dataSource \in {"kepler", "tess", "k2", "combined"}
    /\ body.epochs >= 1 /\ body.epochs <= 1000
    /\ body.batchSize >= 1 /\ body.batchSize <= 512
    /\ body.learningRate >= 1 /\ body.learningRate <= 10000
    /\ body.validationSplit >= 0 /\ body.validationSplit <= 50

\* bodies of a stop request: the id of a session that may exist, the id of
\* none, and a body without sessionId
StopBodies ==
    { [sessionId |-> s] : s \in AllSessionIds \cup {"unknown"} }
    \cup { [session |-> "s1"] }

\* StopTrainingSchema.parse(body) does not throw
StopTrainingSchema(body) == "sessionId" \in DOMAIN body

\* progress in 1/100 of a percent
Percent(n) == n * 100

\* variant: the share of the epochs still to run
progressOf_Remaining(epoch, totalEpochs) == ((totalEpochs - epoch) * Percent(100)) \div totalEpochs

\* (epoch / session.totalEpochs) * 100
progressOf(epoch, totalEpochs) == (epoch * Percent(100)) \div totalEpochs

\* the id the database gives to the next row of trainingSession
HasFreeId == Cardinality(DOMAIN db.sessions) < Len(SessionIds)
nextId == SessionIds[Cardinality(DOMAIN db.sessions) + 1]

Exists(s) == s \in DOMAIN db.sessions
Session(s) == db.sessions[s]

\* a table or a map of processes with one more key
With(f, key, value) == [k \in DOMAIN f \cup {key} |-> IF k = key THEN value ELSE f[k]]

\* db.trainingSession.update({ where: { id }, data })
UpdateSession(table, s, data) ==
    [table EXCEPT !.sessions[s] = Spread(@, data)]

\* db.trainingLog.create({ data: { sessionId, level, message } })
CreateLog(table, s, level, message) ==
    [table EXCEPT !.logs[s] = Append(@, [level |-> level, message |-> message])]

At(s, where) == s \in DOMAIN procs /\ procs[s].pc = where
Goto(s, where) == [procs EXCEPT ![s].pc = where]

InitTraining ==
    /\ config = defaultConfig
    /\ time = 0
    /\ elapsedTime = 0
    /\ cameraTarget = Origin
    /\ pc = "idle"
    /\ frames = 0
    /\ lastEvent = "mount"
    /\ scene = NoScene
    /\ args = NoArgs
    /\ out = NoOut
    /\ NoTraining
    /\ hook = NoHook

\* POST /api/training/start up to its first database call: a body that fails
\* validation is answered 400 from the catch block; a valid one creates the
\* session row
StartRequest(body) ==
    IF ~TrainingRequestSchema(body)
    THEN /\ reply' = [route |-> "start", status |-> 400, body |-> body]
         /\ UNCHANGED << db, procs, stops >>
         /\ UNCHANGED << viewVars, hook >>
    ELSE /\ HasFreeId
         /\ db' = [db EXCEPT !.sessions =
                      With(@, nextId,
                           [ status |-> "pending", progress |-> 0,
                             currentEpoch |-> 0, totalEpochs |-> body.epochs,
                             completedAt |-> 0, errorMessage |-> NULL ])]
         /\ procs' = With(procs, nextId,
                          [pc |-> "post_log", body |-> body, epoch |-> 0,
                           totalEpochs |-> 0, results |-> 0, threw |-> FALSE])
         /\ UNCHANGED << stops, reply >>
         /\ UNCHANGED << viewVars, hook >>

\* the initial log of the start handler
PostLog(s) ==
    /\ At(s, "post_log")
    /\ db' = CreateLog(db, s, "info", "Training session created")
    /\ procs' = Goto(s, "post_start")
    /\ UNCHANGED << stops, reply >>
    /\ UNCHANGED << viewVars, hook >>

\* startTrainingProcess(trainingSession.id) is called without await and the
\* handler returns its response
PostStart(s) ==
    /\ At(s, "post_start")
    /\ procs' = Goto(s, "update_running")
    /\ reply' = [route |-> "start", status |-> 200, body |-> procs[s].body,
                 sessionId |-> s]
    /\ UNCHANGED << db, stops >>
    /\ UNCHANGED << viewVars, hook >>

\* a database call of the start handler rejects: the catch block answers 400
\* and the process is never started
PostThrow(s) ==
    /\ At(s, "post_log")
    /\ procs' = [procs EXCEPT ![s].pc = "not_started", ![s].threw = TRUE]
    /\ reply' = [route |-> "start", status |-> 400, body |-> procs[s].body]
    /\ UNCHANGED << db, stops >>
    /\ UNCHANGED << viewVars, hook >>

\* variant: the process goes on without the update to running
MarkRunning_NoUpdate(s) ==
    /\ At(s, "update_running")
    /\ procs' = Goto(s, "log_started")
    /\ UNCHANGED << db, stops, reply >>
    /\ UNCHANGED << viewVars, hook >>

\* startTrainingProcess: update status to running
MarkRunning(s) ==
    /\ At(s, "update_running")
    /\ db' = UpdateSession(db, s, [status |-> "running"])
    /\ procs' = Goto(s, "log_started")
    /\ UNCHANGED << stops, reply >>
    /\ UNCHANGED << viewVars, hook >>

LogStarted(s) ==
    /\ At(s, "log_started")
    /\ db' = CreateLog(db, s, "info", "Training started - fetching NASA data...")
    /\ procs' = Goto(s, "log_loaded")
    /\ UNCHANGED << stops, reply >>
    /\ UNCHANGED << viewVars, hook >>

\* after the 2 s timer
LogLoaded(s) ==
    /\ At(s, "log_loaded")
    /\ db' = CreateLog(db, s, "info",
                       "Data loaded successfully - preprocessing light curves...")
    /\ procs' = Goto(s, "find_session")
    /\ UNCHANGED << stops, reply >>
    /\ UNCHANGED << viewVars, hook >>

\* findUnique, `if (!session) return`, and the first test of the loop
FindSession(s) ==
    /\ At(s, "find_session")
    /\ procs' = [procs EXCEPT
                   ![s].totalEpochs = IF Exists(s) THEN Session(s).totalEpochs ELSE 0,
                   ![s].epoch = 1,
                   ![s].pc = IF ~Exists(s) THEN "done"
                             ELSE IF 1 <= Session(s).totalEpochs THEN "epoch_update"
                             ELSE "save_result"]
    /\ UNCHANGED << db, stops, reply >>
    /\ UNCHANGED << viewVars, hook >>

\* variant: the update leaves currentEpoch out
EpochUpdate_ProgressOnly(s) ==
    /\ At(s, "epoch_update")
    /\ db' = UpdateSession(db, s,
                [progress |-> progressOf(procs[s].epoch, procs[s].totalEpochs)])
    /\ procs' = Goto(s, IF procs[s].epoch % 10 = 0 THEN "epoch_log" ELSE "epoch_performance")
    /\ UNCHANGED << stops, reply >>
    /\ UNCHANGED << viewVars, hook >>

\* the update of progress and currentEpoch of one epoch
EpochUpdate(s) ==
    /\ At(s, "epoch_update")
    /\ db' = UpdateSession(db, s,
                [progress |-> progressOf(procs[s].epoch, procs[s].totalEpochs),
                 currentEpoch |-> procs[s].epoch])
    /\ procs' = Goto(s, IF procs[s].epoch % 10 = 0 THEN "epoch_log" ELSE "epoch_performance")
    /\ UNCHANGED << stops, reply >>
    /\ UNCHANGED << viewVars, hook >>

\* if (epoch % 10 === 0): the progress log
EpochLog(s) ==
    /\ At(s, "epoch_log")
    /\ db' = CreateLog(db, s, "info", "Epoch")
    /\ procs' = Goto(s, "epoch_performance")
    /\ UNCHANGED << stops, reply >>
    /\ UNCHANGED << viewVars, hook >>

\* db.modelPerformance.create, then the 100 ms timer, epoch++ and the loop test
EpochPerformance(s) ==
    /\ At(s, "epoch_performance")
    /\ db' = [db EXCEPT !.performance[s] = Append(@, [epoch |-> procs[s].epoch])]
    /\ procs' = [procs EXCEPT
                   ![s].epoch = @ + 1,
                   ![s].pc = IF procs[s].epoch + 1 <= procs[s].totalEpochs
                             THEN "epoch_update" ELSE "save_result"]
    /\ UNCHANGED << stops, reply >>
    /\ UNCHANGED << viewVars, hook >>

\* variant: a list of two mock results
mockExoplanets_Two == << "Kepler-442b", "TOI-715 b" >>

\* one db.exoplanetResult.create of the loop over mockExoplanets
mockExoplanets == << "Kepler-442b", "TOI-715 b", "HD 40307g" >>

SaveResult(s) ==
    /\ At(s, "save_result")
    /\ db' = [db EXCEPT !.results[s] =
                 Append(@, mockExoplanets[procs[s].results + 1])]
    /\ procs' = [procs EXCEPT
                   ![s].results = @ + 1,
                   ![s].pc = IF procs[s].results + 1 < Len(mockExoplanets)
                             THEN "save_result" ELSE "mark_completed"]
    /\ UNCHANGED << stops, reply >>
    /\ UNCHANGED << viewVars, hook >>

\* mark training as completed; completedAt counts the dates written to it
MarkCompleted(s) ==
    /\ At(s, "mark_completed")
    /\ db' = UpdateSession(db, s,
                [status |-> "completed", progress |-> Percent(100),
                 completedAt |-> Session(s).completedAt + 1])
    /\ procs' = Goto(s, "log_completed")
    /\ UNCHANGED << stops, reply >>
    /\ UNCHANGED << viewVars, hook >>

LogCompleted(s) ==
    /\ At(s, "log_completed")
    /\ db' = CreateLog(db, s, "info",
                       "Training completed successfully! Found 3 exoplanet candidates.")
    /\ procs' = Goto(s, "done")
    /\ UNCHANGED << stops, reply >>
    /\ UNCHANGED << viewVars, hook >>

\* the positions of the try block at which a database call is awaited
TryPositions ==
    { "update_running", "log_started", "log_loaded", "find_session",
      "epoch_update", "epoch_log", "epoch_performance", "save_result",
      "mark_completed", "log_completed" }

\* the awaited call rejects and control passes to the catch block
Throw(s) ==
    /\ s \in DOMAIN procs
    /\ procs[s].pc \in TryPositions
    /\ procs' = [procs EXCEPT ![s].pc = "catch_update", ![s].threw = TRUE]
    /\ UNCHANGED << db, stops, reply >>
    /\ UNCHANGED << viewVars, hook >>

\* catch: mark training as failed
CatchUpdate(s) ==
    /\ At(s, "catch_update")
    /\ db' = UpdateSession(db, s, [status |-> "failed", errorMessage |-> "error"])
    /\ procs' = Goto(s, "catch_log")
    /\ UNCHANGED << stops, reply >>
    /\ UNCHANGED << viewVars, hook >>

CatchLog(s) ==
    /\ At(s, "catch_log")
    /\ db' = CreateLog(db, s, "error", "Training failed")
    /\ procs' = Goto(s, "done")
    /\ UNCHANGED << stops, reply >>
    /\ UNCHANGED << viewVars, hook >>

\* a call of the catch block rejects: nothing awaits the promise of
\* startTrainingProcess, so the process is over where it stands
CatchThrow(s) ==
    /\ s \in DOMAIN procs
    /\ procs[s].pc \in {"catch_update", "catch_log"}
    /\ procs' = Goto(s, "rejected")
    /\ UNCHANGED << db, stops, reply >>
    /\ UNCHANGED << viewVars, hook >>

\* variant: the stop log is created before the update, so it is written
\* even when the update then finds no session
StopRequest_LogFirst(body) ==
    IF ~StopTrainingSchema(body)
    THEN /\ reply' = [route |-> "stop", status |-> 400, body |-> body]
         /\ UNCHANGED << db, procs, stops >>
         /\ UNCHANGED << viewVars, hook >>
    ELSE IF ~Exists(body.sessionId)
    THEN /\ reply' = [route |-> "stop", status |-> 400, body |-> body]
         /\ db' = [db EXCEPT !.logs =
                      With(@, body.sessionId,
                           << [level |-> "info", message |-> "Training stopped by user"] >>)]
         /\ UNCHANGED << procs, stops >>
         /\ UNCHANGED << viewVars, hook >>
    ELSE /\ stops[body.sessionId].pc = "idle"
         /\ stops[body.sessionId].count < MaxStops
         /\ db' = UpdateSession(db, body.sessionId,
                     [status |-> "stopped",
                      completedAt |-> Session(body.sessionId).completedAt + 1])
         /\ stops' = [stops EXCEPT ![body.sessionId] =
                         [pc |-> "log", count |-> @.count + 1,
                          found |-> Session(body.sessionId).status]]
         /\ UNCHANGED << procs, reply >>
         /\ UNCHANGED << viewVars, hook >>

\* POST /api/training/stop up to its database call: a body without sessionId
\* and the id of no session are answered 400 from the catch block; otherwise
\* the row is updated whatever its status is
StopRequest(body) ==
    IF ~StopTrainingSchema(body) \/ ~Exists(body.sessionId)
    THEN /\ reply' = [route |-> "stop", status |-> 400, body |-> body]
         /\ UNCHANGED << db, procs, stops >>
         /\ UNCHANGED << viewVars, hook >>
    ELSE /\ stops[body.sessionId].pc = "idle"
         /\ stops[body.sessionId].count < MaxStops
         /\ db' = UpdateSession(db, body.sessionId,
                     [status |-> "stopped",
                      completedAt |-> Session(body.sessionId).completedAt + 1])
         /\ stops' = [stops EXCEPT ![body.sessionId] =
                         [pc |-> "log", count |-> @.count + 1,
                          found |-> Session(body.sessionId).status]]
         /\ UNCHANGED << procs, reply >>
         /\ UNCHANGED << viewVars, hook >>

\* the log of the stop handler and its response
StopLog(s) ==
    /\ stops[s].pc = "log"
    /\ db' = CreateLog(db, s, "info", "Training stopped by user")
    /\ stops' = [stops EXCEPT ![s].pc = "idle"]
    /\ reply' = [route |-> "stop", status |-> 200, body |-> [sessionId |-> s]]
    /\ UNCHANGED procs
    /\ UNCHANGED << viewVars, hook >>

\* performance rows ordered by epoch descending, take 1: the epoch of the
\* first, or 0 (null) when there is none
latestOf(rows) ==
    IF rows = << >> THEN 0
    ELSE CHOOSE e \in { rows[k].epoch : k \in DOMAIN rows } :
            \A k \in DOMAIN rows : rows[k].epoch <= e

\* what GET /api/training/status/[sessionId] answers from the tables
statusResponse(table, id) ==
    IF id \notin DOMAIN table.sessions
    THEN [route |-> "status", status |-> 404, sessionId |-> id]
    ELSE [ route |-> "status", status |-> 200, sessionId |-> id,
           session |->
             [ status |-> table.sessions[id].status,
               progress |-> table.sessions[id].progress,
               currentEpoch |-> table.sessions[id].currentEpoch,
               totalEpochs |-> table.sessions[id].totalEpochs,
               completedAt |-> table.sessions[id].completedAt,
               exoplanetCount |-> Len(table.results[id]),
               latestPerformance |-> latestOf(table.performance[id]),
               logCount |-> Len(table.logs[id]) ] ]

StatusRequest(id) ==
    /\ reply' = statusResponse(db, id)
    /\ UNCHANGED << db, procs, stops >>
    /\ UNCHANGED << viewVars, hook >>

\* the steps of the start handler and of the training process it starts,
\* when no call rejects
ProcessStep(s) ==
    \/ PostLog(s)
    \/ PostStart(s)
    \/ MarkRunning(s)
    \/ LogStarted(s)
    \/ LogLoaded(s)
    \/ FindSession(s)
    \/ EpochUpdate(s)
    \/ EpochLog(s)
    \/ EpochPerformance(s)
    \/ SaveResult(s)
    \/ MarkCompleted(s)
    \/ LogCompleted(s)

NextTraining ==
    \/ \E body \in StartBodies : StartRequest(body)
    \/ \E body \in StopBodies : StopRequest(body)
    \/ \E id \in AllSessionIds \cup {"unknown"} : StatusRequest(id)
    \/ \E s \in AllSessionIds :
          \/ ProcessStep(s)
          \/ PostThrow(s)
          \/ Throw(s)
          \/ CatchUpdate(s)
          \/ CatchLog(s)
          \/ CatchThrow(s)
          \/ StopLog(s)

SpecTraining == InitTraining /\ [][NextTraining]_vars

\* the event loop runs every continuation that is ready: a handler or
\* process that can take a step eventually takes one
SpecTrainingFair ==
    SpecTraining /\ \A s \in AllSessionIds : WF_vars(ProcessStep(s))

-----------------------------------------------------------------------------
(* Properties of the training API *)

\* the stop handler of s has returned its response and found the session running
StoppedWhileRunning(s) ==
    /\ s \in DOMAIN db.sessions
    /\ stops[s].count > 0 /\ stops[s].pc = "idle"
    /\ stops[s].found = "running"

\* C17: after a stop request for a running session has succeeded, the status
\* of the session stays 'stopped' and the background process changes neither
\* its status nor its progress nor its currentEpoch.
C17_StopHaltsTraining ==
    [][ \A s \in AllSessionIds :
          (StoppedWhileRunning(s) /\ db.sessions[s].status = "stopped")
          => /\ db'.sessions[s].status = "stopped"
             /\ db'.sessions[s].progress = db.sessions[s].progress
             /\ db'.sessions[s].currentEpoch = db.sessions[s].currentEpoch ]_vars


HasStatus(s, status) == s \in DOMAIN db.sessions /\ db.sessions[s].status = status

\* no database call of the start handler or of the process of s has rejected
NoFailure(s) == s \in DOMAIN procs => ~procs[s].threw

\* no stop request has updated s
NeverStopped(s) == stops[s].count = 0

\* the status goes from before to after by one step of pending -> running ->
\* completed, or stays
InOrder(before, after) ==
    \/ after = before
    \/ before = "pending" /\ after = "running"
    \/ before = "running" /\ after = "completed"

\* the steps of s's status up to the next state are in order
StatusInOrder(s) ==
    /\ (s \in DOMAIN db'.sessions /\ s \notin DOMAIN db.sessions)
          => db'.sessions[s].status = "pending"
    /\ (s \in DOMAIN db.sessions)
          => InOrder(db.sessions[s].status, db'.sessions[s].status)

\* C18 as stated: every session created by a valid start request, if no
\* operation fails, moves through pending, running, completed in that order
\* and eventually reaches completed.
C18_SessionCompletesInOrder ==
    /\ [][ \A s \in AllSessionIds : NoFailure(s)' => StatusInOrder(s) ]_vars
    /\ \A s \in AllSessionIds :
          [](s \in DOMAIN db.sessions
               => <>(HasStatus(s, "completed") \/ ~NoFailure(s)))

\* C18: every session created by a valid start request, if no operation
\* fails and no stop request updates it, moves through pending, running,
\* completed in that order and eventually reaches completed.
C18_UnstoppedSessionCompletesInOrder ==
    /\ [][ \A s \in AllSessionIds :
             (NoFailure(s)' /\ NeverStopped(s)') => StatusInOrder(s) ]_vars
    /\ \A s \in AllSessionIds :
          [](s \in DOMAIN db.sessions
               => <>(\/ HasStatus(s, "completed")
                     \/ ~NoFailure(s)
                     \/ ~NeverStopped(s)))

\* a session of 2 epochs that ran to its end without a failure or a stop
C18_Witness ==
    /\ "s1" \in DOMAIN db.sessions
    /\ db.sessions["s1"].status = "completed"
    /\ db.sessions["s1"].totalEpochs = 2
    /\ db.sessions["s1"].currentEpoch = 2
    /\ NoFailure("s1") /\ NeverStopped("s1")
    /\ procs["s1"].pc = "done"
    /\ Len(db.performance["s1"]) = 2
    /\ Len(db.results["s1"]) = 3


\* a body that TrainingRequestSchema rejects: a field outside the limits the
\* schema gives it
FailsValidation(body) ==
    \/ body.dataSource \notin {"kepler", "tess", "k2", "combined"}
    \/ body.epochs < 1 \/ body.epochs > 1000
    \/ body.batchSize < 1 \/ body.batchSize > 512
    \/ body.learningRate < 1 \/ body.learningRate > 10000
    \/ body.validationSplit < 0 \/ body.validationSplit > 50

\* the step is the response to a start request with a body that fails validation
AnswersInvalidStart ==
    /\ reply' # reply
    /\ reply'.route = "start"
    /\ FailsValidation(reply'.body)

\* C19: a start request whose body fails validation is answered with status
\* 400, creates no session, writes no log and starts no training process.
C19_InvalidStartRejected ==
    /\ [][ AnswersInvalidStart
             => (reply'.status = 400 /\ db' = db /\ procs' = procs) ]_vars
    /\ [](\A s \in DOMAIN procs : ~FailsValidation(procs[s].body))

\* the answer to a request with epochs = 1001 that arrived while a session
\* was running
C19_Witness ==
    /\ reply.route = "start" /\ reply.status = 400
    /\ reply.body.epochs = 1001
    /\ DOMAIN db.sessions = {"s1"}
    /\ db.sessions["s1"].status = "running"
    /\ Len(db.logs["s1"]) = 2
    /\ procs["s1"].pc = "log_loaded"

\* C20: a session whose status is 'completed' or 'failed' is terminal: no
\* later request or background step changes its status or its completedAt;
\* in particular a stop request does not turn it into 'stopped'.
C20_TerminalStatusKept ==
    [][ \A s \in DOMAIN db.sessions :
          db.sessions[s].status \in {"completed", "failed"}
          => /\ db'.sessions[s].status = db.sessions[s].status
             /\ db'.sessions[s].completedAt = db.sessions[s].completedAt ]_vars


-----------------------------------------------------------------------------
(* Properties of a session's progress *)

\* 100 * currentEpoch / totalEpochs, in 1/100 of a percent
shareOfEpochs(row) == (row.currentEpoch * 100 * 100) \div row.totalEpochs

ProgressInRange(row) ==
    /\ row.currentEpoch \in 0..row.totalEpochs
    /\ row.progress \in 0..(100 * 100)
    /\ row.currentEpoch > 0 => row.progress = shareOfEpochs(row)

\* C21: in every reachable state of a session 0 <= currentEpoch <=
\* totalEpochs and 0 <= progress <= 100, progress is 100 * currentEpoch /
\* totalEpochs whenever currentEpoch > 0, and currentEpoch and progress never
\* decrease.
C21_ProgressBounded ==
    /\ [](\A s \in DOMAIN db.sessions : ProgressInRange(db.sessions[s]))
    /\ [][ \A s \in DOMAIN db.sessions :
             /\ db'.sessions[s].currentEpoch >= db.sessions[s].currentEpoch
             /\ db'.sessions[s].progress >= db.sessions[s].progress ]_vars

\* a session of 2 epochs, stopped after its first epoch, whose process has
\* gone on to the update of the second
C21_Witness ==
    /\ "s1" \in DOMAIN db.sessions
    /\ db.sessions["s1"].totalEpochs = 2
    /\ db.sessions["s1"].currentEpoch = 1
    /\ db.sessions["s1"].progress = 50 * 100
    /\ db.sessions["s1"].status = "stopped"
    /\ procs["s1"].pc = "epoch_update" /\ procs["s1"].epoch = 2


\* the answer of the status endpoint to its last request, when it found the session
IsStatusAnswer == reply.route = "status" /\ reply.status = 200

\* C22: whenever the status of a session is 'completed', its progress is
\* 100, its currentEpoch is totalEpochs, completedAt is set and exactly three
\* exoplanet results are stored for it, so that the status endpoint reports
\* exoplanetCount = 3.
C22_CompletedSessionIsWhole ==
    /\ \A s \in DOMAIN db.sessions :
          db.sessions[s].status = "completed"
          => /\ db.sessions[s].progress = 100 * 100
             /\ db.sessions[s].currentEpoch = db.sessions[s].totalEpochs
             /\ db.sessions[s].completedAt > 0
             /\ Len(db.results[s]) = 3
    /\ (IsStatusAnswer /\ reply.session.status = "completed")
          => /\ reply.session.exoplanetCount = 3
             /\ reply.session.progress = 100 * 100
             /\ reply.session.currentEpoch = reply.session.totalEpochs
             /\ reply.session.completedAt > 0

\* the status endpoint answered for a completed session of 2 epochs
C22_Witness ==
    /\ IsStatusAnswer
    /\ reply.session.status = "completed"
    /\ reply.session.totalEpochs = 2
    /\ reply.session.exoplanetCount = 3
    /\ db.sessions["s1"].status = "completed"


\* the epochs of the stored performance rows of s
performanceEpochs(s) == { db.performance[s][k].epoch : k \in DOMAIN db.performance[s] }

\* C23: the stored performance records of a session have pairwise distinct
\* epochs that form the range 1..k, with k <= currentEpoch <= k + 1 at every
\* moment, so that the latestPerformance.epoch the status endpoint reports
\* never exceeds the currentEpoch it reports.
C23_PerformanceFollowsEpoch ==
    /\ \A s \in DOMAIN db.sessions :
          /\ performanceEpochs(s) = 1..Len(db.performance[s])
          /\ db.sessions[s].currentEpoch
                \in Len(db.performance[s])..(Len(db.performance[s]) + 1)
    /\ IsStatusAnswer
          => reply.session.latestPerformance <= reply.session.currentEpoch

\* the status endpoint answered between the update of epoch 2 and its
\* performance record
C23_Witness ==
    /\ IsStatusAnswer
    /\ reply.session.currentEpoch = 2
    /\ reply.session.latestPerformance = 1
    /\ Len(db.performance["s1"]) = 2
    /\ db.sessions["s1"].currentEpoch = 2


\* a call of the background process of s (not of the start handler) rejected
ProcessThrew(s) ==
    s \in DOMAIN procs /\ procs[s].threw /\ procs[s].pc # "not_started"

\* the process of s has run to its end
ProcessOver(s) == s \in DOMAIN procs /\ procs[s].pc \in {"done", "rejected"}

HasErrorLog(s) == \E k \in DOMAIN db.logs[s] : db.logs[s][k].level = "error"

\* C24: if any step of the background training process throws, the session
\* ends with status 'failed', an errorMessage and an error-level log entry,
\* and it is never marked 'completed' afterwards.
C24_ThrowEndsFailed ==
    /\ [](\A s \in AllSessionIds :
            (ProcessThrew(s) /\ ProcessOver(s))
            => /\ db.sessions[s].status = "failed"
               /\ db.sessions[s].errorMessage # NULL
               /\ HasErrorLog(s))
    /\ [][ \A s \in AllSessionIds :
             (ProcessThrew(s) /\ db'.sessions[s].status = "completed")
             => db.sessions[s].status = "completed" ]_vars


\* a body that has no sessionId, or whose sessionId is the id of no session
NamesNoSession(body) ==
    \/ "sessionId" \notin DOMAIN body
    \/ body.sessionId \notin DOMAIN db.sessions

\* the step is the response to a stop request that names no session
AnswersBadStop ==
    /\ reply' # reply
    /\ reply'.route = "stop"
    /\ NamesNoSession(reply'.body)

\* C25: a stop request that names a session that does not exist, or whose
\* body has no string sessionId, is answered with status 400 and leaves the
\* database unchanged: no session is modified and no 'Training stopped by
\* user' log is written.
C25_BadStopRejected ==
    [][ AnswersBadStop
          => /\ reply'.status = 400
             /\ db' = db
             /\ \A s \in AllSessionIds : db'.logs[s] = db.logs[s] ]_vars

\* the answer to a stop request for an unknown id that arrived while a
\* session was running
C25_Witness ==
    /\ reply.route = "stop" /\ reply.status = 400
    /\ reply.body = [sessionId |-> "unknown"]
    /\ DOMAIN db.sessions = {"s1"}
    /\ db.sessions["s1"].status = "running"
    /\ db.sessions["s1"].currentEpoch = 1


(***************************************************************************)
(* useTrainingProgress: the hook of the dashboard that polls the status    *)
(* route.  React keeps three views of the hook apart: the state a setter   *)
(* was last called with, the state and options of the last committed       *)
(* render, and the dependencies the effects last ran with.  A timer tick   *)
(* is a task of its own and may run between any two of them.               *)
(***************************************************************************)

\* the number of fetches the hook issues in a run of the model
MaxFetches == 2

\* sessionId is optional
HookSessionIds == { NULL, "s1" }

ServerStatuses == { "pending", "running", "completed", "failed", "stopped" }

\* the changes of a session's status the training API makes
StatusSteps ==
    { << "pending", "running" >>, << "pending", "stopped" >>,
      << "pending", "failed" >>, << "running", "completed" >>,
      << "running", "stopped" >>, << "running", "failed" >>,
      << "stopped", "running" >>, << "stopped", "completed" >>,
      << "stopped", "failed" >>, << "completed", "stopped" >>,
      << "completed", "failed" >>, << "failed", "stopped" >> }

\* the auto-refresh effect sets an interval when this holds
isActive(view) ==
    /\ view.enabled
    /\ view.sessionId # NULL
    /\ view.status = "running"

\* fetchStatus of a render with this sessionId: nothing without a sessionId
fetchStatus(h, sessionId, origin) ==
    IF sessionId = NULL
    THEN h
    ELSE [h EXCEPT !.inflight = Append(@, [ sessionId |-> sessionId,
                                             origin |-> origin,
                                             result |-> "sent" ]),
                   !.issued = @ + 1,
                   !.lastOrigin = origin]

\* effects whose auto-refresh effect returns no cleanup: an interval once set
\* is never cleared
runEffects_NoCleanup(h) ==
    LET kept == [h EXCEPT !.interval = @ \/ isActive(h.rendered),
                          !.intervalSession = IF h.interval THEN @
                                              ELSE h.rendered.sessionId,
                          !.deps = h.rendered]
        refetch == \/ h.deps.enabled # h.rendered.enabled
                   \/ h.deps.sessionId # h.rendered.sessionId
    IN  IF refetch /\ h.rendered.enabled
        THEN fetchStatus(kept, h.rendered.sessionId, "initial")
        ELSE kept

\* the effects of a commit: the auto-refresh effect clears its interval and
\* sets a new one when a dependency changed, the initial-fetch effect fetches
\* when enabled or sessionId changed
runEffects(h) ==
    LET cleared == [h EXCEPT !.interval = isActive(h.rendered),
                             !.intervalSession = h.rendered.sessionId,
                             !.deps = h.rendered]
        refetch == \/ h.deps.enabled # h.rendered.enabled
                   \/ h.deps.sessionId # h.rendered.sessionId
    IN  IF refetch /\ h.rendered.enabled
        THEN fetchStatus(cleared, h.rendered.sessionId, "initial")
        ELSE cleared

\* the hook after the mount of its component with these options
mountHook(enabled, sessionId, server) ==
    LET first == [enabled |-> enabled, sessionId |-> sessionId, status |-> NULL]
        h == [ mounted |-> TRUE, status |-> NULL, rendered |-> first,
               deps |-> first, interval |-> FALSE, intervalSession |-> NULL,
               inflight |-> << >>, issued |-> 0, lastOrigin |-> "none",
               server |-> server ]
    IN  IF enabled THEN fetchStatus(h, sessionId, "initial") ELSE h

InitHook ==
    /\ config = defaultConfig
    /\ time = 0
    /\ elapsedTime = 0
    /\ cameraTarget = "sun"
    /\ pc = "idle"
    /\ frames = 0
    /\ lastEvent = "none"
    /\ scene = NoScene
    /\ args = NoArgs
    /\ out = NoOut
    /\ NoTraining
    /\ \E enabled \in BOOLEAN, sessionId \in HookSessionIds :
           hook = mountHook(enabled, sessionId, "pending")

EffectsPending == hook.deps # hook.rendered

RenderPending == hook.rendered.status # hook.status

HookStep(h) ==
    /\ hook' = h
    /\ UNCHANGED << viewVars, apiVars >>

\* the owner of the hook renders it with other options
SetOptions(enabled, sessionId) ==
    /\ ~EffectsPending
    /\ hook.issued < MaxFetches
    /\ << enabled, sessionId >> # << hook.rendered.enabled, hook.rendered.sessionId >>
    /\ HookStep([hook EXCEPT !.rendered = [ enabled |-> enabled,
                                            sessionId |-> sessionId,
                                            status |-> hook.status ]])

\* React renders the hook after setStatus
RenderHook ==
    /\ ~EffectsPending
    /\ RenderPending
    /\ HookStep([hook EXCEPT !.rendered.status = hook.status])

\* React runs the effects of the last commit
RunEffects ==
    /\ EffectsPending
    /\ HookStep(runEffects(hook))

\* the interval fires: fetchStatus of the render that set the interval
IntervalTick ==
    /\ hook.interval
    /\ hook.issued < MaxFetches
    /\ HookStep(fetchStatus(hook, hook.intervalSession, "auto"))

\* the owner calls refetch
Refetch ==
    /\ hook.rendered.sessionId # NULL
    /\ hook.issued < MaxFetches
    /\ HookStep(fetchStatus(hook, hook.rendered.sessionId, "manual"))

\* the training process or a stop request changes the status of the session
ServerStep(status) ==
    /\ << hook.server, status >> \in StatusSteps
    /\ HookStep([hook EXCEPT !.server = status])

\* the status route answers a fetch, or the fetch fails
Answer(i, ok) ==
    /\ i \in DOMAIN hook.inflight
    /\ hook.inflight[i].result = "sent"
    /\ HookStep([hook EXCEPT !.inflight[i].result =
                                 IF ok THEN hook.server ELSE "error"])

Without(q, i) == [ j \in 1 .. Len(q) - 1 |-> IF j < i THEN q[j] ELSE q[j + 1] ]

\* the answer of a fetch arrives: setStatus unless the fetch failed
Arrive(i) ==
    /\ i \in DOMAIN hook.inflight
    /\ hook.inflight[i].result # "sent"
    /\ HookStep([hook EXCEPT !.inflight = Without(@, i),
                             !.status = IF hook.inflight[i].result = "error"
                                        THEN @ ELSE hook.inflight[i].result])

NextHook ==
    \/ \E enabled \in BOOLEAN, sessionId \in HookSessionIds :
           SetOptions(enabled, sessionId)
    \/ RenderHook
    \/ RunEffects
    \/ IntervalTick
    \/ Refetch
    \/ \E status \in ServerStatuses : ServerStep(status)
    \/ \E i \in 1 .. MaxFetches, ok \in BOOLEAN : Answer(i, ok)
    \/ \E i \in 1 .. MaxFetches : Arrive(i)

SpecHook == InitHook /\ [][NextHook]_vars

\* a step in which the interval issued a fetch
AutomaticFetch ==
    /\ hook'.issued = hook.issued + 1
    /\ hook'.lastOrigin = "auto"

\* what the hook was last given and last saw
Observed ==
    [ enabled |-> hook.rendered.enabled, sessionId |-> hook.rendered.sessionId,
      status |-> hook.status ]

\* C26 (as stated): the interval issues a fetch only while the hook is enabled, has a
\* sessionId and the status it last received is 'running'; after another
\* status arrived or the options were cleared no automatic fetch follows.
C26_AutomaticFetchOnlyWhileRunning ==
    [][AutomaticFetch => isActive(Observed)]_vars


\* the effects have run for everything the hook was given and has received
EffectsSettled == ~EffectsPending /\ ~RenderPending

\* C26: an interval exists, and issues a fetch, only while the options and
\* the status the auto-refresh effect last ran with were enabled, a sessionId
\* and 'running'; once the effects have run for another status or for cleared
\* options the interval is cleared and no automatic fetch is issued.
C26_AutomaticFetchFollowsEffect ==
    /\ [](hook.interval => isActive(hook.deps))
    /\ []((EffectsSettled /\ ~isActive(Observed)) => ~hook.interval)
    /\ [][AutomaticFetch => (hook.interval /\ isActive(hook.deps))]_vars

\* the interval fetched, then 'completed' arrived and the effect cleared it
C26_Witness ==
    /\ hook.lastOrigin = "auto"
    /\ hook.status = "completed"
    /\ EffectsSettled
    /\ ~hook.interval

=============================================================================
